---------------------------- MODULE Spec2Model ----------------------------
(***************************************************************************)
(* Solar-production forecast engine of the battery_management integration  *)
(* (custom_components/battery_management/sensor.py).                       *)
(*                                                                         *)
(* Numbers.  The code computes in floating point; the model computes in    *)
(* scaled integers:                                                        *)
(*   angles                 centidegrees (1 deg = 100)                     *)
(*   sines, cosines, ratios  x 10000                                        *)
(*   air mass               x 1000                                         *)
(*   irradiance             0.01 W/m2                                      *)
(*   power                  mW  (0.001 kW = 1000)                          *)
(*   energy                 mW * min  (1 kWh = 60 000 000)                 *)
(*   time                   minutes; a datetime is [wall, off, aware]:     *)
(*                          wall  minutes since 00:00 of the base calendar *)
(*                                day, read on the datetime's own clock,   *)
(*                          off   its UTC offset in minutes,               *)
(*                          aware whether it carries a tzinfo.             *)
(* math.sin / math.cos are the table SinTable (whole degrees) with linear  *)
(* interpolation, math.asin its inverse, math.atan2 is resolved to whole   *)
(* degrees, 0.7 ** (air_mass ** 0.678) is TransmissionTable (whole air     *)
(* masses) with linear interpolation.                                      *)
(***************************************************************************)
EXTENDS Integers, Sequences, FiniteSets, TLC

(***************************************************************************)
(* Bounds of the model: the inputs the engine is run on.                   *)
(***************************************************************************)
\* calendar date of day 0 (datetime.year / month / day of the start instant)
BaseYear == 2025
BaseMonth == 6
BaseDay == 21
\* latitude, longitude of the installation, whole degrees
LatitudeDeg == 46
LongitudeDeg == 21
\* what the sun-times provider answers: minute of the UTC day
SunriseMinute == 172
SunsetMinute == 1100
\* largest panel tilt index and rated power (hW) tried
MaxTiltSteps == 2
MaxPvSteps == 2

(***************************************************************************)
(* Program constants.                                                      *)
(***************************************************************************)
StepMinutes == 5
MinutesPerDay == 1440

(***************************************************************************)
(* math.sin, math.cos, math.asin, math.atan2, math.tan                     *)
(***************************************************************************)
SinTable ==
    <<     0,   175,   349,   523,   698,   872,  1045,  1219,  1392,  1564,
        1736,  1908,  2079,  2250,  2419,  2588,  2756,  2924,  3090,  3256,
        3420,  3584,  3746,  3907,  4067,  4226,  4384,  4540,  4695,  4848,
        5000,  5150,  5299,  5446,  5592,  5736,  5878,  6018,  6157,  6293,
        6428,  6561,  6691,  6820,  6947,  7071,  7193,  7314,  7431,  7547,
        7660,  7771,  7880,  7986,  8090,  8192,  8290,  8387,  8480,  8572,
        8660,  8746,  8829,  8910,  8988,  9063,  9135,  9205,  9272,  9336,
        9397,  9455,  9511,  9563,  9613,  9659,  9703,  9744,  9781,  9816,
        9848,  9877,  9903,  9925,  9945,  9962,  9976,  9986,  9994,  9998,
       10000 >>

Max(a, b) == IF a >= b THEN a ELSE b

Abs(a) == IF a >= 0 THEN a ELSE -a

\* sine of a first-quadrant angle 0..9000 centidegrees
SinQ(a) ==
    LET d == a \div 100
        r == a % 100
    IN  IF r = 0 THEN SinTable[d + 1]
        ELSE SinTable[d + 1] + ((SinTable[d + 2] - SinTable[d + 1]) * r) \div 100

\* math.sin of an angle in centidegrees
Sin(a) ==
    LET m == a % 36000
    IN  IF m <= 9000 THEN SinQ(m)
        ELSE IF m <= 18000 THEN SinQ(18000 - m)
        ELSE IF m <= 27000 THEN -SinQ(m - 18000)
        ELSE -SinQ(36000 - m)

\* math.cos of an angle in centidegrees
Cos(a) == Sin(a + 9000)

\* math.asin of s (x 10000), in centidegrees; defined for -10000 <= s <= 10000
Asin(s) ==
    LET v == Abs(s)
        d == IF v >= 10000 THEN 90
             ELSE CHOOSE k \in 0..89 : SinTable[k + 1] <= v /\ v < SinTable[k + 2]
        a == IF d = 90 THEN 9000
             ELSE d * 100
                  + ((v - SinTable[d + 1]) * 100) \div (SinTable[d + 2] - SinTable[d + 1])
    IN  IF s >= 0 THEN a ELSE -a

\* math.atan2(y, x) in whole degrees, -179..180
Atan2Deg(y, x) ==
    LET ay == Abs(y)
        ax == Abs(x)
        b == IF ax = 0 /\ ay = 0 THEN 0
             ELSE CHOOSE k \in 0..90 :
                    /\ SinTable[k + 1] * ax <= ay * SinTable[91 - k]
                    /\ \/ k = 90
                       \/ SinTable[k + 2] * ax > ay * SinTable[90 - k]
    IN  IF x >= 0 THEN (IF y >= 0 THEN b ELSE -b)
        ELSE (IF y >= 0 THEN 180 - b ELSE b - 180)

(***************************************************************************)
(* datetime                                                                *)
(***************************************************************************)
\* a timezone-aware datetime in UTC, u minutes after 00:00 UTC of day 0
UtcTime(u) == [wall |-> u, off |-> 0, aware |-> TRUE]

\* the absolute instant of an aware datetime
Instant(dt) == dt.wall - dt.off

\* datetime.date(): the calendar day on the datetime's own clock (day index)
DateOf(dt) == dt.wall \div MinutesPerDay

\* datetime.hour * 60 + datetime.minute, on the datetime's own clock
MinuteOfDay(dt) == dt.wall % MinutesPerDay

\* dt + timedelta(minutes = m)
PlusMinutes(dt, m) == [dt EXCEPT !.wall = dt.wall + m]

\* Python refuses to order a naive and an aware datetime (TypeError)
Comparable(a, b) == a.aware = b.aware

\* a >= b for two comparable datetimes
AtOrAfter(a, b) ==
    IF a.aware THEN Instant(a) >= Instant(b) ELSE a.wall >= b.wall

\* a < b for two comparable datetimes
Before(a, b) == ~AtOrAfter(a, b)

(***************************************************************************)
(* calculate_solar_position(latitude, longitude, dt)                       *)
(***************************************************************************)
\* the Julian day number of the calendar day of dt (integer part)
JulianDay(dt) ==
    LET year == BaseYear
        month == BaseMonth
        day == BaseDay + DateOf(dt)
        a == (14 - month) \div 12
        y == year - a
        m == month + 12 * a - 3
    IN  day + (153 * m + 2) \div 5 + 365 * y + y \div 4 - y \div 100
        + y \div 400 + 1721119

\* solar declination (centidegrees) at dt
Declination(dt) ==
    LET nDays == JulianDay(dt) - 2451545
        \* (dt.hour - 12) / 24 + dt.minute / 1440, in minutes
        nMin == MinuteOfDay(dt) - 720
        L == (28046 + (98565 * nDays) \div 1000 + (9856 * nMin) \div 144000) % 36000
        g == (35753 + (98560 * nDays) \div 1000 + (9856 * nMin) \div 144000) % 36000
        lambda_sun == L + (1915 * Sin(g)) \div 100000 + (2 * Sin(2 * g)) \div 10000
    IN  Asin((3978 * Sin(lambda_sun)) \div 10000)

\* hour angle (centidegrees): 15 * (mst - 12) + longitude, mst read from
\* dt.hour and dt.minute as they stand
HourAngle(longitude, dt) == 25 * (MinuteOfDay(dt) - 720) + longitude

\* the argument of math.asin in the elevation (x 10000)
ElevationSine(latitude, delta, h) ==
    (Sin(latitude) * Sin(delta) + ((Cos(latitude) * Cos(delta)) \div 10000) * Cos(h))
        \div 10000

\* math.degrees(azimuth) % 360, in centidegrees
AzimuthOf(latitude, delta, h) ==
    LET tanDelta == (Sin(delta) * 10000) \div Cos(delta)
        x == (Cos(h) * Sin(latitude) - tanDelta * Cos(latitude)) \div 10000
    IN  (Atan2Deg(Sin(h), x) % 360) * 100

\* the position for a declination and an hour angle; s is the argument of
\* math.asin, which raises (math domain error) outside [-1, 1]: the except
\* clause then returns the safe default
PositionFrom(latitude, delta, h, s) ==
    IF Abs(s) > 10000
    THEN [elevation |-> 0, azimuth |-> 0]
    ELSE [elevation |-> Asin(s), azimuth |-> AzimuthOf(latitude, delta, h)]

PositionAt(latitude, delta, h) ==
    PositionFrom(latitude, delta, h, ElevationSine(latitude, delta, h))

\* a numerical failure in the calculation: << >>, or << the instant at which
\* the math of calculate_solar_position raises >>
VARIABLE fault

\* the math raises for dt
MathFails(dt) == fault # << >> /\ dt.aware /\ Instant(dt) = fault[1]

\* return {"elevation": 0, "azimuth": 0}
SafePosition == [elevation |-> 0, azimuth |-> 0]

\* SolarPositionCall without the except clause
SolarPositionCallUncaught(latitude, longitude, dt_arg) ==
    IF dt_arg = << >>
    THEN [raises |-> "AttributeError", value |-> SafePosition]
    ELSE IF MathFails(dt_arg[1])
    THEN [raises |-> "ValueError", value |-> SafePosition]
    ELSE [raises |-> "none",
          value |-> PositionAt(latitude, Declination(dt_arg[1]),
                               HourAngle(longitude, dt_arg[1]))]

\* the call of calculate_solar_position with dt_arg = << >> (None, no
\* datetime) or << dt >>: any exception in the try block gives the safe
\* default
SolarPositionCall(latitude, longitude, dt_arg) ==
    IF dt_arg = << >>
    THEN [raises |-> "none", value |-> SafePosition]
    ELSE IF MathFails(dt_arg[1])
    THEN [raises |-> "none", value |-> SafePosition]
    ELSE [raises |-> "none",
          value |-> PositionAt(latitude, Declination(dt_arg[1]),
                               HourAngle(longitude, dt_arg[1]))]

calculate_solar_position(latitude, longitude, dt) ==
    SolarPositionCall(latitude, longitude, << dt >>).value

(***************************************************************************)
(* calculate_panel_irradiance(solar_elevation, solar_azimuth, panel_tilt,  *)
(*                            panel_azimuth)                               *)
(***************************************************************************)
TransmissionTable ==
    << 7000,  5652,  4718,  4013,  3457,  3006,  2633,  2321,  2055,  1828,
       1632,  1462,  1313,  1183,  1068,   966,   876,   796,   724,   660,
        602,   550,   503,   461,   423,   388,   357,   329,   303,   279,
        257,   238,   220,   203,   188,   174,   161,   150,   139,   129,
        120,   112,   104,    97,    90,    84,    78,    73,    68,    63,
         59,    55,    52,    48,    45,    42,    40,    37,    35 >>

\* cosine of the angle of incidence (x 10000), before the clamp
CosIncidence(sun_el, sun_az, panel_tilt, panel_azimuth) ==
    (Sin(sun_el) * Cos(panel_tilt)
       + ((Cos(sun_el) * Sin(panel_tilt)) \div 10000) * Cos(sun_az - panel_azimuth))
        \div 10000

\* air mass (x 1000) for a solar elevation above the horizon
AirMass(solar_elevation) ==
    IF solar_elevation > 100 THEN 10000000 \div Sin(solar_elevation) ELSE 10000

\* 0.7 ** (air_mass ** 0.678), x 10000
Transmission(air_mass) ==
    LET k == air_mass \div 1000
        r == air_mass % 1000
    IN  IF r = 0 THEN TransmissionTable[k]
        ELSE TransmissionTable[k]
             - ((TransmissionTable[k] - TransmissionTable[k + 1]) * r) \div 1000

\* PanelIrradiance without the test that the sun is above the horizon
PanelIrradianceUnguarded(solar_elevation, solar_azimuth, panel_tilt, panel_azimuth) ==
    (((90000 * Transmission(AirMass(solar_elevation))) \div 10000)
        * Max(0, CosIncidence(Max(0, solar_elevation), solar_azimuth, panel_tilt,
                              panel_azimuth))) \div 10000

\* the irradiance before the last clamp
PanelIrradiance(solar_elevation, solar_azimuth, panel_tilt, panel_azimuth) ==
    LET sun_el == Max(0, solar_elevation)
        cos_incidence ==
            Max(0, CosIncidence(sun_el, solar_azimuth, panel_tilt, panel_azimuth))
    IN  IF solar_elevation > 0
        THEN LET dni == (90000 * Transmission(AirMass(solar_elevation))) \div 10000
             IN  (dni * cos_incidence) \div 10000
        ELSE 0

calculate_panel_irradiance(solar_elevation, solar_azimuth, panel_tilt, panel_azimuth) ==
    Max(0, PanelIrradiance(solar_elevation, solar_azimuth, panel_tilt, panel_azimuth))


(***************************************************************************)
(* State                                                                   *)
(***************************************************************************)
VARIABLES
    \* the call's arguments and its environment
    start_arg,            \* start_time as passed: << >> (None) or << dt >>
    now,                  \* what datetime.now() answers
    sun_answers,          \* what the sun-times provider answers, per date
    panel_tilt,
    panel_orientation,
    pv_max_power,         \* rated power, hW
    \* calculate_energy_forecast's position and locals
    pc,
    start_time,
    today,
    sunrise_time,
    sunset_time,
    forecast_day,
    full_day_forecast,
    total_daily_energy,
    current_time_full,
    \* how the call ended
    caught,               \* the exception the engine's except clause caught
    outcome,              \* "pending", "returned" or "raised"
    result,
    \* calculate_panel_irradiance called on its own
    irr_in,
    irr_out,
    \* a second invocation of calculate_energy_forecast, in another thread
    running,              \* the invocation the arguments and locals above belong to
    parked,               \* the arguments and locals of the other invocation
    \* the integration in Home Assistant
    hass_data,            \* hass.data
    forwarded,            \* per entry, the platform lists forwarded to Home Assistant
    setup,                \* per entry, where its async_setup_entry stands
    \* SunsetCountdownSensor.state evaluated on its own
    clock,                \* the instant of the evaluation, minutes UTC
    tz_off,               \* the UTC offset of the system's local time, minutes
    countdown,            \* << >>, or << what state returned >>
    \* calculate_solar_position called on its own
    pos_in,
    pos_out,
    \* ConfigFlow.async_step_user called on its own
    flow_in,
    flow_out,
    \* the switches of the entries
    is_on,                \* per switch, _is_on
    last_command          \* per switch, the last of turn_on / turn_off it got

vars ==
    << start_arg, now, sun_answers, panel_tilt, panel_orientation, pv_max_power,
       pc, start_time, today, sunrise_time, sunset_time, forecast_day,
       full_day_forecast, total_daily_energy, current_time_full,
       caught, outcome, result, irr_in, irr_out, running, parked,
       hass_data, forwarded, setup, clock, tz_off, countdown, fault,
       pos_in, pos_out, flow_in, flow_out, is_on, last_command >>

env ==
    << start_arg, now, sun_answers, panel_tilt, panel_orientation, pv_max_power,
       fault >>

irr == << irr_in, irr_out >>

\* the position function, the config flow and the switches
others == << pos_in, pos_out, flow_in, flow_out, is_on, last_command >>

integration == << hass_data, forwarded, setup, clock, tz_off, countdown >>

\* the arguments and locals of the running invocation
Frame ==
    [start_arg |-> start_arg, panel_tilt |-> panel_tilt,
     panel_orientation |-> panel_orientation, pv_max_power |-> pv_max_power,
     pc |-> pc, start_time |-> start_time, today |-> today,
     sunrise_time |-> sunrise_time, sunset_time |-> sunset_time,
     forecast_day |-> forecast_day, full_day_forecast |-> full_day_forecast,
     total_daily_energy |-> total_daily_energy,
     current_time_full |-> current_time_full,
     caught |-> caught, outcome |-> outcome, result |-> result]

\* OtherInvocation with full_day_forecast a list of the module, one for all
\* invocations
OtherInvocationSharedSeries ==
    /\ running' = running
    /\ parked' = [parked EXCEPT !.full_day_forecast = full_day_forecast']

\* a step of the running invocation assigns its own local names only: the
\* other invocation's arguments and locals stay as they are
OtherInvocation ==
    /\ running' = running
    /\ parked' = parked

Latitude == LatitudeDeg * 100

Longitude == LongitudeDeg * 100

(***************************************************************************)
(* get_sun_times(latitude, longitude, timezone, date)                      *)
(***************************************************************************)
\* the dict astral answers for a date: aware UTC datetimes
SunDict(date) ==
    [k \in {"sunrise", "sunset"} |->
        UtcTime(date * MinutesPerDay
                + (IF k = "sunrise" THEN SunriseMinute ELSE SunsetMinute))]

\* {}: what get_sun_times returns when astral raises (no sunrise or sunset)
EmptyDict == [k \in {} |-> UtcTime(0)]

\* the parameters of get_sun_times, and the arguments it is given where the
\* engine asks for the start date's sunset again
GetSunTimesParams == 4
OriginalSunsetArgs == 3

\* sun(location.observer, date=date): the dict, or the exception astral raises
\* when the sun does not rise or set on the date, or on any other error
Astral(date) == sun_answers[date]

AstralReturns(date) == [raises |-> "none", value |-> SunDict(date)]

AstralRaises(exception) == [raises |-> exception, value |-> EmptyDict]

\* GetSunTimesCall without the except clause
GetSunTimesCallUncaught(date) == Astral(date)

\* the call of get_sun_times: what astral returns, and {} for any exception
GetSunTimesCall(date) ==
    IF Astral(date).raises # "none"
    THEN [raises |-> "none", value |-> EmptyDict]
    ELSE [raises |-> "none", value |-> Astral(date).value]

get_sun_times(date) == GetSunTimesCall(date).value

\* not sun_times or "sunset" not in sun_times or "sunrise" not in sun_times
NoSunTimes(sun_times) ==
    \/ DOMAIN sun_times = {}
    \/ "sunset" \notin DOMAIN sun_times
    \/ "sunrise" \notin DOMAIN sun_times

(***************************************************************************)
(* calculate_energy_forecast: results                                      *)
(***************************************************************************)
NoResult == [returned |-> FALSE]

\* ZeroResult with a marker in place of the zero totals
ZeroResultUnknownTotals ==
    [total_energy |-> -1, forecast |-> << >>, full_day_forecast |-> << >>,
     total_daily_energy |-> -1]

\* the result returned when the start date has no sun times
ZeroResult ==
    [total_energy |-> 0, forecast |-> << >>, full_day_forecast |-> << >>,
     total_daily_energy |-> 0]

\* ErrorResult handing back what the loops had built when the exception came
ErrorResultPartial ==
    [total_energy |-> 0, forecast |-> << >>,
     full_day_forecast |-> full_day_forecast,
     total_daily_energy |-> total_daily_energy]

\* the result the except clause returns
ErrorResult ==
    [total_energy |-> 0, forecast |-> << >>, full_day_forecast |-> << >>,
     total_daily_energy |-> 0]

\* the except clause: log, return ErrorResult
ExceptClause == [outcome |-> "returned", result |-> ErrorResult]

\* round(x, n): x to the nearest multiple of unit
Round(x, unit) == ((2 * x + unit) \div (2 * unit)) * unit

\* the result once both series are known
FullResult(forecast, total_energy) ==
    [total_energy |-> Round(total_energy, 60000),
     forecast |-> forecast,
     full_day_forecast |-> full_day_forecast,
     total_daily_energy |-> Round(total_daily_energy, 60000),
     sunrise_time |-> sunrise_time,
     sunset_time |-> sunset_time,
     forecast_start |-> start_time,
     forecast_day |-> forecast_day]

(***************************************************************************)
(* calculate_energy_forecast: one step of either loop                      *)
(***************************************************************************)
PanelEfficiency == 20
SystemEfficiency == 90

\* PowerKw with the irradiance taken against 100 W/m2
PowerKwPerHundred(irradiance, rated) ==
    (((irradiance * rated * PanelEfficiency) \div 10) * SystemEfficiency) \div 100

\* power (mW) for an irradiance and a rated power
PowerKw(irradiance, rated) ==
    (((irradiance * rated * PanelEfficiency) \div 100) * SystemEfficiency) \div 100

\* Energy5Min with the quarter-hour step of a later revision
Energy5MinQuarterHour(power_kw) == power_kw * 3 * StepMinutes

\* energy of one step (mW * min)
Energy5Min(power_kw) == power_kw * StepMinutes

\* the dict appended for a step
Interval(dt, solar_pos, irradiance, power_kw, energy_5min) ==
    [time |-> dt,
     solar_elevation |-> solar_pos.elevation,
     solar_azimuth |-> solar_pos.azimuth,
     irradiance |-> irradiance,
     power_kw |-> Round(power_kw, 1000),
     energy_5min_kwh |-> Round(energy_5min, 6000)]

\* what a step at dt computes: the position, the irradiance, the power, the
\* energy, and the dict to append
StepOfPower(dt, solar_pos, irradiance, power_kw) ==
    [solar_pos |-> solar_pos,
     energy_5min |-> Energy5Min(power_kw),
     interval |-> Interval(dt, solar_pos, irradiance, power_kw, Energy5Min(power_kw))]

StepOfIrradiance(dt, solar_pos, irradiance, rated) ==
    StepOfPower(dt, solar_pos, irradiance, PowerKw(irradiance, rated))

StepOfPosition(dt, solar_pos, tilt, orientation, rated) ==
    StepOfIrradiance(dt, solar_pos,
        calculate_panel_irradiance(solar_pos.elevation, solar_pos.azimuth,
                                   tilt, orientation),
        rated)

StepAt(dt, tilt, orientation, rated) ==
    StepOfPosition(dt, calculate_solar_position(Latitude, Longitude, dt),
                   tilt, orientation, rated)

\* the full-day loop keeps a step only when the sun is above the horizon
IncludeInFullDay(solar_pos) == solar_pos.elevation > 0

\* list.append
AppendInterval(series, interval) == Append(series, interval)

\* NextStepTime with the 15-minute step of a later revision after midday
NextStepTimeMixed(dt) ==
    PlusMinutes(dt, IF MinuteOfDay(dt) < 720 THEN StepMinutes ELSE 3 * StepMinutes)

\* current_time += timedelta(minutes=5)
NextStepTime(dt) == PlusMinutes(dt, StepMinutes)


(***************************************************************************)
(* calculate_energy_forecast: the remaining series and the return          *)
(***************************************************************************)
\* OriginalSunset with the timezone passed, so that the lookup takes place
OriginalSunsetWithTimezone(start, sunset) ==
    IF DOMAIN get_sun_times(DateOf(start)) = {}
    THEN [raises |-> FALSE, known |-> TRUE, value |-> sunset]
    ELSE IF "sunset" \in DOMAIN get_sun_times(DateOf(start))
    THEN [raises |-> FALSE, known |-> TRUE,
          value |-> get_sun_times(DateOf(start))["sunset"]]
    ELSE [raises |-> FALSE, known |-> FALSE, value |-> sunset]

\* get_sun_times(latitude, longitude, start_time.date()).get("sunset") if
\* get_sun_times(latitude, longitude, start_time.date()) else sunset_time:
\* the call gives get_sun_times one argument too few, which raises TypeError
\* before anything is looked up
OriginalSunset(start, sunset) ==
    IF OriginalSunsetArgs # GetSunTimesParams
    THEN [raises |-> TRUE, known |-> FALSE, value |-> sunset]
    ELSE LET again == get_sun_times(DateOf(start))
         IN  IF DOMAIN again = {}
             THEN [raises |-> FALSE, known |-> TRUE, value |-> sunset]
             ELSE IF "sunset" \in DOMAIN again
             THEN [raises |-> FALSE, known |-> TRUE, value |-> again["sunset"]]
             ELSE [raises |-> FALSE, known |-> FALSE, value |-> sunset]

\* the loop from start_time until sunset, every step appended: pass k is at
\* current_time + (k - 1) steps, and the loop makes as many passes as there
\* are step instants from current_time up to, not including, sunset.
\* total_of[lo, hi] adds up the energies of passes lo..hi.
RemainingLoop(current_time, sunset, tilt, orientation, rated) ==
    LET passes == IF Before(current_time, sunset)
                  THEN (Instant(sunset) - Instant(current_time) + StepMinutes - 1)
                           \div StepMinutes
                  ELSE 0
        step_of == [k \in 1..passes |->
                       StepAt(PlusMinutes(current_time, (k - 1) * StepMinutes),
                              tilt, orientation, rated)]
        total_of[lo \in 1..(passes + 1), hi \in 0..passes] ==
            IF lo > hi THEN 0
            ELSE IF lo = hi THEN step_of[lo].energy_5min
            ELSE total_of[lo, (lo + hi) \div 2] + total_of[(lo + hi) \div 2 + 1, hi]
    IN  [forecast |-> [k \in 1..passes |-> step_of[k].interval],
         total_energy |-> total_of[1, passes]]

\* the return taken once the start instant is at or after the start date's sunset
PastSunsetResult ==
    [FullResult(<< >>, 0) EXCEPT !.total_energy = 0]

(***************************************************************************)
(* calculate_energy_forecast: the steps of a call                          *)
(***************************************************************************)
Raise(exception) ==
    /\ caught' = exception
    /\ outcome' = ExceptClause.outcome
    /\ result' = ExceptClause.result
    /\ pc' = "done"

Return(value) ==
    /\ outcome' = "returned"
    /\ result' = value
    /\ pc' = "done"
    /\ UNCHANGED caught

\* the default start instant, the start date and its sun times; the early
\* return when the start date has none
Call ==
    /\ pc = "call"
    /\ LET st == IF start_arg = << >> THEN now ELSE start_arg[1]
           sun_times == get_sun_times(DateOf(st))
       IN  /\ start_time' = st
           /\ today' = DateOf(st)
           /\ IF NoSunTimes(sun_times)
              THEN /\ Return(ZeroResult)
                   /\ UNCHANGED << sunrise_time, sunset_time >>
              ELSE /\ sunrise_time' = sun_times["sunrise"]
                   /\ sunset_time' = sun_times["sunset"]
                   /\ pc' = "rollover"
                   /\ UNCHANGED << caught, outcome, result >>
    /\ UNCHANGED << env, irr, integration, others, forecast_day, full_day_forecast,
                    total_daily_energy, current_time_full >>
    /\ OtherInvocation

\* past sunset the forecast is tomorrow's, when tomorrow has sun times; then
\* the full-day loop is set up
Rollover ==
    /\ pc = "rollover"
    /\ IF ~Comparable(start_time, sunset_time)
       THEN /\ Raise("TypeError")
            /\ UNCHANGED << sunrise_time, sunset_time, forecast_day,
                            full_day_forecast, total_daily_energy,
                            current_time_full >>
       ELSE LET tomorrow == today + 1
                tomorrow_sun_times == get_sun_times(tomorrow)
                roll == /\ AtOrAfter(start_time, sunset_time)
                        /\ ~NoSunTimes(tomorrow_sun_times)
                sunrise == IF roll THEN tomorrow_sun_times["sunrise"]
                           ELSE sunrise_time
            IN  /\ sunrise_time' = sunrise
                /\ sunset_time' = IF roll THEN tomorrow_sun_times["sunset"]
                                  ELSE sunset_time
                /\ forecast_day' = IF roll THEN tomorrow ELSE today
                /\ full_day_forecast' = << >>
                /\ total_daily_energy' = 0
                /\ current_time_full' = sunrise
                /\ pc' = "full_day"
                /\ UNCHANGED << caught, outcome, result >>
    /\ UNCHANGED << env, irr, integration, others, start_time, today >>
    /\ OtherInvocation

\* FullDayAppend with the trapezoid rule: half the step's energy added
FullDayAppendTrapezoid(step) ==
    IF IncludeInFullDay(step.solar_pos)
    THEN /\ full_day_forecast' = AppendInterval(full_day_forecast, step.interval)
         /\ total_daily_energy' = total_daily_energy + step.energy_5min \div 2
    ELSE UNCHANGED << full_day_forecast, total_daily_energy >>

\* one pass of the full-day loop
FullDayAppend(step) ==
    IF IncludeInFullDay(step.solar_pos)
    THEN /\ full_day_forecast' = AppendInterval(full_day_forecast, step.interval)
         /\ total_daily_energy' = total_daily_energy + step.energy_5min
    ELSE UNCHANGED << full_day_forecast, total_daily_energy >>

FullDayStep ==
    /\ pc = "full_day"
    /\ Before(current_time_full, sunset_time)
    /\ FullDayAppend(StepAt(current_time_full, panel_tilt, panel_orientation,
                            pv_max_power))
    /\ current_time_full' = NextStepTime(current_time_full)
    /\ UNCHANGED << env, irr, integration, others, pc, start_time, today, sunrise_time, sunset_time,
                    forecast_day, caught, outcome, result >>
    /\ OtherInvocation

\* after the full-day loop: the start date's sunset is asked for again, then
\* either the past-sunset return or the remaining loop and the full return
ReturnRemaining(rem) == Return(FullResult(rem.forecast, rem.total_energy))

ReturnAfter(original_sunset) ==
    IF original_sunset.raises \/ ~original_sunset.known
    THEN Raise("TypeError")
    ELSE IF AtOrAfter(start_time, original_sunset.value)
    THEN Return(PastSunsetResult)
    ELSE ReturnRemaining(RemainingLoop(start_time, sunset_time, panel_tilt,
                                       panel_orientation, pv_max_power))

AfterFullDay ==
    /\ pc = "full_day"
    /\ ~Before(current_time_full, sunset_time)
    /\ ReturnAfter(OriginalSunset(start_time, sunset_time))
    /\ UNCHANGED << env, irr, integration, others, start_time, today, sunrise_time, sunset_time,
                    forecast_day, full_day_forecast, total_daily_energy,
                    current_time_full >>
    /\ OtherInvocation

(***************************************************************************)
(* The calls the engine is checked on                                      *)
(***************************************************************************)
\* minutes of the UTC day the start instant is drawn from: before sunrise,
\* off the step grid in daylight, at sunset, one minute after it, at night
StartMinutes ==
    {60, SunriseMinute + 111 * StepMinutes - 4, SunsetMinute, SunsetMinute + 1, 1290}

\* UTC offsets an aware start instant carries
StartOffsets == {0, 120}

StartTimes ==
    {[wall |-> m + o, off |-> o, aware |-> TRUE] : m \in StartMinutes, o \in StartOffsets}
    \cup {[wall |-> m, off |-> 0, aware |-> FALSE] : m \in StartMinutes}

Days == 0..1

AstralErrors == {"ValueError", "KeyError"}

SunAnswers ==
    {a \in [Days -> {AstralReturns(d) : d \in Days}
                        \cup {AstralRaises(x) : x \in AstralErrors}] :
        \A d \in Days : a[d].raises = "none" => a[d] = AstralReturns(d)}

TiltChoices == {1500 * k : k \in 0..MaxTiltSteps}

PvChoices == {50 * k : k \in 1..MaxPvSteps}

IdleIrr == [elevation |-> 0, azimuth |-> 0, tilt |-> 0, orientation |-> 0]

\* the position function and the config flow not called, no switch
OthersIdle ==
    /\ pos_in = << >>
    /\ pos_out = << >>
    /\ flow_in = << >>
    /\ flow_out = << >>
    /\ is_on = << >>
    /\ last_command = << >>

\* the locals of a call that has not begun
LocalsUnset ==
    /\ start_time = now
    /\ today = 0
    /\ sunrise_time = UtcTime(0)
    /\ sunset_time = UtcTime(0)
    /\ forecast_day = 0
    /\ full_day_forecast = << >>
    /\ total_daily_energy = 0
    /\ current_time_full = UtcTime(0)
    /\ caught = "none"
    /\ outcome = "pending"
    /\ result = NoResult

\* no config entry, no sensor evaluated
IntegrationIdle ==
    /\ hass_data = << >>
    /\ forwarded = << >>
    /\ setup = << >>
    /\ clock = 0
    /\ tz_off = 0
    /\ countdown = << >>

\* the arguments and locals of an invocation that has not begun
UnsetFrame(start, tilt, orientation, rated, at) ==
    [start_arg |-> start, panel_tilt |-> tilt,
     panel_orientation |-> orientation, pv_max_power |-> rated,
     pc |-> at, start_time |-> now, today |-> 0,
     sunrise_time |-> UtcTime(0), sunset_time |-> UtcTime(0),
     forecast_day |-> 0, full_day_forecast |-> << >>,
     total_daily_energy |-> 0, current_time_full |-> UtcTime(0),
     caught |-> "none", outcome |-> "pending", result |-> NoResult]

\* one invocation only
NoOtherInvocation == UnsetFrame(<< >>, 0, 18000, 50, "idle")

Init ==
    /\ start_arg \in {<< >>} \cup {<< t >> : t \in StartTimes}
    /\ now = [wall |-> 723, off |-> 0, aware |-> FALSE]
    /\ fault = << >>
    /\ sun_answers \in SunAnswers
    /\ panel_tilt \in TiltChoices
    /\ panel_orientation = 18000
    /\ pv_max_power \in PvChoices
    /\ pc = "call"
    /\ LocalsUnset
    /\ OthersIdle
    /\ irr_in = IdleIrr
    /\ irr_out = << >>
    /\ running = 1
    /\ parked = NoOtherInvocation
    /\ IntegrationIdle

Next ==
    \/ Call
    \/ Rollover
    \/ FullDayStep
    \/ AfterFullDay

Spec == Init /\ [][Next]_vars

(***************************************************************************)
(* Two invocations at once, for two panels, in two threads: the variables  *)
(* hold the arguments and locals of the one that runs, parked those of the *)
(* other, and the interpreter may switch between them after any step       *)
(***************************************************************************)
\* the start instants of the two invocations: omitted, and aware in daylight
ConcurrentStarts ==
    {<< >>,
     << [wall |-> SunriseMinute + 111 * StepMinutes - 4, off |-> 0, aware |-> TRUE] >>}

InitConcurrent ==
    /\ start_arg \in ConcurrentStarts
    /\ now = [wall |-> 723, off |-> 0, aware |-> FALSE]
    /\ fault = << >>
    /\ sun_answers = [d \in Days |-> AstralReturns(d)]
    /\ panel_tilt = 0
    /\ panel_orientation = 18000
    /\ pv_max_power = 50
    /\ pc = "call"
    /\ LocalsUnset
    /\ OthersIdle
    /\ irr_in = IdleIrr
    /\ irr_out = << >>
    /\ running = 1
    /\ parked \in {UnsetFrame(s, 3000, 9000, 100, "call") : s \in ConcurrentStarts}
    /\ IntegrationIdle

\* the thread of the other invocation gets the interpreter
Switch ==
    /\ parked.pc \notin {"idle", "done"}
    /\ running' = 3 - running
    /\ parked' = Frame
    /\ start_arg' = parked.start_arg
    /\ panel_tilt' = parked.panel_tilt
    /\ panel_orientation' = parked.panel_orientation
    /\ pv_max_power' = parked.pv_max_power
    /\ pc' = parked.pc
    /\ start_time' = parked.start_time
    /\ today' = parked.today
    /\ sunrise_time' = parked.sunrise_time
    /\ sunset_time' = parked.sunset_time
    /\ forecast_day' = parked.forecast_day
    /\ full_day_forecast' = parked.full_day_forecast
    /\ total_daily_energy' = parked.total_daily_energy
    /\ current_time_full' = parked.current_time_full
    /\ caught' = parked.caught
    /\ outcome' = parked.outcome
    /\ result' = parked.result
    /\ UNCHANGED << now, sun_answers, fault, irr, integration, others >>

NextConcurrent ==
    \/ Call
    \/ Rollover
    \/ FullDayStep
    \/ AfterFullDay
    \/ Switch

SpecConcurrent == InitConcurrent /\ [][NextConcurrent]_vars


(***************************************************************************)
(* calculate_panel_irradiance on its own: every solar position and panel   *)
(* drawn from the sets below, the function applied once                    *)
(***************************************************************************)
ElevationChoices == {-3000, -50, 0, 50, 100, 101, 250, 3000, 6000, 9000}

AzimuthChoices == {0, 9000, 13500, 18000, 27000, 35900}

OrientationChoices == {0, 9000, 18000, 27000}

InitIrradiance ==
    /\ start_arg = << >>
    /\ now = [wall |-> 723, off |-> 0, aware |-> FALSE]
    /\ fault = << >>
    /\ sun_answers = [d \in Days |-> AstralRaises("ValueError")]
    /\ panel_tilt = 0
    /\ panel_orientation = 18000
    /\ pv_max_power = 50
    /\ pc = "idle"
    /\ LocalsUnset
    /\ OthersIdle
    /\ irr_in \in [elevation : ElevationChoices, azimuth : AzimuthChoices,
                   tilt : TiltChoices \cup {9000}, orientation : OrientationChoices]
    /\ irr_out = << >>
    /\ running = 1
    /\ parked = NoOtherInvocation
    /\ IntegrationIdle

Irradiate ==
    /\ irr_out = << >>
    /\ irr_out' = << calculate_panel_irradiance(irr_in.elevation, irr_in.azimuth,
                                                irr_in.tilt, irr_in.orientation) >>
    /\ UNCHANGED << env, pc, start_time, today, sunrise_time, sunset_time,
                    forecast_day, full_day_forecast, total_daily_energy,
                    current_time_full, caught, outcome, result, irr_in,
                    running, parked, integration, others >>

NextIrradiance == Irradiate

SpecIrradiance == InitIrradiance /\ [][NextIrradiance]_vars

(***************************************************************************)
(* What the claims speak of                                                *)
(***************************************************************************)
Done == pc = "done"

\* the sun-times provider has sunrise and sunset for the start date
TodayResolves == ~NoSunTimes(get_sun_times(DateOf(start_time)))

\* the sun-times provider has sunrise and sunset for the day after
TomorrowResolves == ~NoSunTimes(get_sun_times(DateOf(start_time) + 1))

\* the sunset of the start date
TodaySunset == get_sun_times(DateOf(start_time))["sunset"]

\* the start instant can be placed against the sun times, and is at or after
\* the start date's sunset
StartPastSunset ==
    /\ start_time.aware
    /\ TodayResolves
    /\ AtOrAfter(start_time, TodaySunset)

\* the start instant can be placed against the sun times, and is before the
\* start date's sunset
StartBeforeSunset ==
    /\ start_time.aware
    /\ TodayResolves
    /\ Before(start_time, TodaySunset)

\* both series empty, both totals 0
ZeroShape(r) ==
    /\ r.forecast = << >>
    /\ r.full_day_forecast = << >>
    /\ r.total_energy = 0
    /\ r.total_daily_energy = 0

\* the series a state holds: the full-day series as built so far, and the two
\* returned ones
SeriesHeld ==
    {full_day_forecast}
    \cup (IF outcome = "returned"
          THEN {result.forecast, result.full_day_forecast}
          ELSE {})

IsSuffix(s, t) ==
    /\ Len(s) <= Len(t)
    /\ \A i \in 1..Len(s) : s[i] = t[Len(t) - Len(s) + i]

\* rated power in mW
RatedPower == pv_max_power * 100000

(***************************************************************************)
(* C1  With no sunrise or no sunset for the start date, the call returns,  *)
(* without raising, a result with both series empty and both totals 0.     *)
(***************************************************************************)
C1_NoSunTimesZeroResult ==
    (Done /\ ~TodayResolves) =>
        /\ outcome = "returned"
        /\ caught = "none"
        /\ ZeroShape(result)

C1_Witness == Done /\ ~TodayResolves /\ outcome = "returned"

(***************************************************************************)
(* C2  Day rollover: for a start instant at or after today's sunset, when  *)
(* tomorrow's sun times resolve, the remaining series is empty, the        *)
(* remaining total is 0, and the full-day series is non-empty.             *)
(***************************************************************************)
C2_RolloverFullDayNonEmpty ==
    (Done /\ StartPastSunset /\ TomorrowResolves) =>
        /\ result.forecast = << >>
        /\ result.total_energy = 0
        /\ result.full_day_forecast # << >>

C5_FixedStep ==
    \A series \in SeriesHeld :
        \A i \in 1..(Len(series) - 1) :
            Instant(series[i + 1].time) - Instant(series[i].time) = StepMinutes

C5_Witness == Len(full_day_forecast) >= 150

(***************************************************************************)
(* C6  When an exception comes up during the computation, after any number *)
(* of intervals were built, the call returns the zero result (both series  *)
(* empty, both totals 0) and does not raise.                               *)
(***************************************************************************)
C6_ExceptionZeroResult ==
    (Done /\ caught # "none") =>
        /\ outcome = "returned"
        /\ ZeroShape(result)

C6_Witness == Done /\ caught # "none" /\ Len(full_day_forecast) > 0

(***************************************************************************)
(* C8  calculate_panel_irradiance is >= 0 for every solar position and     *)
(* panel, and exactly 0 when the solar elevation is <= 0.                  *)
(***************************************************************************)
C8_IrradianceNonNegative ==
    irr_out # << >> =>
        /\ irr_out[1] >= 0
        /\ irr_in.elevation <= 0 => irr_out[1] = 0

\* the sun below the horizon in front of a tilted panel, and the sun above
\* the horizon behind the panel plane
C8_Witness ==
    /\ irr_out # << >>
    /\ \/ /\ irr_in.elevation < 0
          /\ irr_in.tilt > 0
          /\ irr_in.azimuth = irr_in.orientation
       \/ /\ irr_in.elevation > 0
          /\ CosIncidence(irr_in.elevation, irr_in.azimuth, irr_in.tilt,
                          irr_in.orientation) < 0

(***************************************************************************)
(* C9  Whenever sun times are defined, the full-day series starts at local *)
(* midnight of the forecast date and holds 288 five-minute intervals.      *)
(***************************************************************************)
C9_FullDayFromMidnight ==
    (Done /\ TodayResolves) =>
        /\ Len(result.full_day_forecast) = MinutesPerDay \div StepMinutes
        /\ MinuteOfDay(result.full_day_forecast[1].time) = 0

(***************************************************************************)
(* C10  When the start instant precedes the resolved sunset, the remaining *)
(* series starts at the start instant, advances by the fixed step, and     *)
(* holds exactly the step instants t with start <= t < sunset.             *)
(***************************************************************************)
C10_RemainingFromStart ==
    (Done /\ StartBeforeSunset) =>
        /\ Len(result.forecast) =
               (Instant(sunset_time) - Instant(start_time) + StepMinutes - 1)
                   \div StepMinutes
        /\ \A i \in 1..Len(result.forecast) :
               result.forecast[i].time = PlusMinutes(start_time, (i - 1) * StepMinutes)

(***************************************************************************)
(* C11  With the start instant omitted the engine takes the current        *)
(* instant, and when the start date has sun times the call returns a       *)
(* computed result that carries sunset_time and forecast_start.            *)
(***************************************************************************)
C11_DefaultStartComputed ==
    (Done /\ start_arg = << >> /\ TodayResolves) =>
        /\ outcome = "returned"
        /\ caught = "none"
        /\ "sunset_time" \in DOMAIN result
        /\ "forecast_start" \in DOMAIN result
        /\ result.forecast_start = now

Domain == "battery_management"

PLATFORMS == << "sensor", "switch" >>

\* the variables of the forecast engine
engine ==
    << env, irr, pc, start_time, today, sunrise_time, sunset_time, forecast_day,
       full_day_forecast, total_daily_energy, current_time_full, caught,
       outcome, result, running, parked >>

\* an empty dict
NoKeys == {}

EmptyData == [k \in NoKeys |-> << >>]

\* hass.data.setdefault(DOMAIN, {})
SetDefault(data, key) ==
    IF key \in DOMAIN data THEN data ELSE (key :> EmptyData) @@ data

\* StoreEntryData with a new dict for the domain at every setup
StoreEntryDataAfresh(data, entry_id, entry_data) ==
    (Domain :> (entry_id :> entry_data)) @@ data

\* hass.data.setdefault(DOMAIN, {}); hass.data[DOMAIN][entry.entry_id] = entry.data
StoreEntryData(data, entry_id, entry_data) ==
    (Domain :> ((entry_id :> entry_data) @@ SetDefault(data, Domain)[Domain]))
        @@ data

\* async_setup_entry up to its await: the data stored, the platforms handed
\* to Home Assistant
SetupEntry(e) ==
    /\ setup[e].pc = "idle"
    /\ hass_data' = StoreEntryData(hass_data, e, setup[e].data)
    /\ forwarded' = [forwarded EXCEPT ![e] = Append(@, PLATFORMS)]
    /\ setup' = [setup EXCEPT ![e].pc = "forwarding"]
    /\ UNCHANGED << engine, others, clock, tz_off, countdown >>

\* async_forward_entry_setups came back: return True
ForwardReturns(e) ==
    /\ setup[e].pc = "forwarding"
    /\ setup' = [setup EXCEPT ![e].pc = "done", ![e].returned = << TRUE >>]
    /\ UNCHANGED << engine, others, hass_data, forwarded, clock, tz_off, countdown >>

\* async_forward_entry_setups raised: async_setup_entry raises the same
ForwardRaises(e) ==
    /\ setup[e].pc = "forwarding"
    /\ setup' = [setup EXCEPT ![e].pc = "raised"]
    /\ UNCHANGED << engine, others, hass_data, forwarded, clock, tz_off, countdown >>

\* RemoveEntryData popping the entry whatever the platforms answered
RemoveEntryDataAlways(data, entry_id, unload_ok) ==
    (Domain :> [k \in DOMAIN data[Domain] \ {entry_id} |-> data[Domain][k]])
        @@ data

\* if unload_ok: hass.data[DOMAIN].pop(entry.entry_id)
RemoveEntryData(data, entry_id, unload_ok) ==
    IF unload_ok
    THEN (Domain :> [k \in DOMAIN data[Domain] \ {entry_id} |-> data[Domain][k]])
             @@ data
    ELSE data

\* async_unload_entry up to its await: Home Assistant is asked to unload the
\* platforms of an entry that was set up
UnloadEntry(e) ==
    /\ setup[e].pc = "done"
    /\ setup' = [setup EXCEPT ![e].pc = "unloading",
                              ![e].unload_ok = << >>,
                              ![e].unload_returned = << >>]
    /\ UNCHANGED << engine, others, hass_data, forwarded, clock, tz_off, countdown >>

\* async_unload_platforms came back with unload_ok: the entry's data popped
\* if it is true, and unload_ok returned. An unloaded entry has no platform
\* left and can be set up again.
UnloadReturns(e, unload_ok) ==
    /\ setup[e].pc = "unloading"
    /\ hass_data' = RemoveEntryData(hass_data, e, unload_ok)
    /\ forwarded' = [forwarded EXCEPT ![e] = IF unload_ok THEN << >> ELSE @]
    /\ setup' = [setup EXCEPT ![e].pc = IF unload_ok THEN "idle" ELSE "done",
                              ![e].unload_ok = << unload_ok >>,
                              ![e].unload_returned = << unload_ok >>]
    /\ UNCHANGED << engine, others, clock, tz_off, countdown >>

EntryIds == {"entry_1", "entry_2", "entry_3"}

EntryDataChoices ==
    {[name |-> "Guard", pv_max_power |-> 50],
     [name |-> "Guard 2", pv_max_power |-> 100]}

\* the forecast engine not called
EngineIdle ==
    /\ start_arg = << >>
    /\ now = [wall |-> 723, off |-> 0, aware |-> FALSE]
    /\ fault = << >>
    /\ sun_answers = [d \in Days |-> AstralRaises("ValueError")]
    /\ panel_tilt = 0
    /\ panel_orientation = 18000
    /\ pv_max_power = 50
    /\ pc = "idle"
    /\ LocalsUnset
    /\ OthersIdle
    /\ irr_in = IdleIrr
    /\ irr_out = << >>
    /\ running = 1
    /\ parked = NoOtherInvocation

InitSetup ==
    /\ EngineIdle
    /\ hass_data = EmptyData
    /\ forwarded = [e \in EntryIds |-> << >>]
    /\ setup \in [EntryIds -> {[pc |-> "idle", data |-> d, returned |-> << >>,
                                 unload_ok |-> << >>,
                                 unload_returned |-> << >>] :
                                  d \in EntryDataChoices}]
    /\ clock = 0
    /\ tz_off = 0
    /\ countdown = << >>

NextSetup ==
    \/ \E e \in EntryIds : SetupEntry(e)
    \/ \E e \in EntryIds : ForwardReturns(e)
    \/ \E e \in EntryIds : ForwardRaises(e)
    \/ \E e \in EntryIds : UnloadEntry(e)
    \/ \E e \in EntryIds : \E unload_ok \in BOOLEAN : UnloadReturns(e, unload_ok)

SpecSetup == InitSetup /\ [][NextSetup]_vars

(***************************************************************************)
(* C13  async_setup_entry stores the entry's data under                    *)
(* hass.data[DOMAIN][entry_id], forwards the entry to the sensor and       *)
(* switch platforms exactly once, and, the forward having come back,       *)
(* returns True.                                                           *)
(***************************************************************************)
C13_SetupStoresAndForwards ==
    \A e \in DOMAIN setup :
        /\ setup[e].pc \in {"forwarding", "done", "raised"} =>
              /\ Domain \in DOMAIN hass_data
              /\ e \in DOMAIN hass_data[Domain]
              /\ hass_data[Domain][e] = setup[e].data
              /\ forwarded[e] = << << "sensor", "switch" >> >>
        /\ setup[e].pc = "done" => setup[e].returned = << TRUE >>
        /\ setup[e].pc = "idle" => forwarded[e] = << >>

\* two entries set up, with different data, after a third one's forward raised
C13_Witness ==
    /\ DOMAIN setup = EntryIds
    /\ setup["entry_1"].pc = "done"
    /\ setup["entry_2"].pc = "done"
    /\ setup["entry_3"].pc = "raised"
    /\ setup["entry_1"].data # setup["entry_2"].data

(***************************************************************************)
(* C15  get_sun_times never raises: when astral cannot give sunrise and    *)
(* sunset for the date, or fails in any other way, it returns an empty     *)
(* dict, and the engine returns the zero forecast for such a start date.   *)
(***************************************************************************)
C15_GetSunTimesNeverRaises ==
    /\ \A d \in Days :
          /\ GetSunTimesCall(d).raises = "none"
          /\ Astral(d).raises # "none" => get_sun_times(d) = EmptyDict
          /\ Astral(d).raises = "none" => get_sun_times(d) = Astral(d).value
    /\ (Done /\ Astral(DateOf(start_time)).raises # "none") =>
          /\ outcome = "returned"
          /\ caught = "none"
          /\ result = ZeroResult

\* astral raised for the start date, for a reason other than the sun not
\* rising or setting, and the call is over
C15_Witness ==
    /\ Done
    /\ Astral(DateOf(start_time)).raises = "KeyError"
    /\ outcome = "returned"

(***************************************************************************)
(* SunsetCountdownSensor.state (sensor.py), evaluated at the instant clock *)
(* on a system whose local time is tz_off minutes ahead of UTC             *)
(***************************************************************************)
SecondsPerMinute == 60

\* return None
NoState == [known |-> FALSE, seconds |-> 0]

\* return a number of seconds
StateOf(seconds) == [known |-> TRUE, seconds |-> seconds]

\* datetime.now().date(): the date of the system's local time
LocalDate(instant, offset) == (instant + offset) \div MinutesPerDay

\* (a - now).total_seconds()
SecondsUntil(a, instant) == (Instant(a) - instant) * SecondsPerMinute

\* the branch taken once today's sunset is not after now
AfterSunsetState(instant, s_tomorrow) ==
    IF DOMAIN s_tomorrow # {} /\ "sunrise" \in DOMAIN s_tomorrow
       /\ instant < Instant(s_tomorrow["sunrise"])
    THEN StateOf(0)
    ELSE IF DOMAIN s_tomorrow # {} /\ "sunset" \in DOMAIN s_tomorrow
    THEN StateOf(SecondsUntil(s_tomorrow["sunset"], instant))
    ELSE NoState

SunsetCountdownStateOf(instant, today_date, s) ==
    IF NoSunTimes(s)
    THEN NoState
    ELSE IF Instant(s["sunset"]) > instant
    THEN StateOf(SecondsUntil(s["sunset"], instant))
    ELSE AfterSunsetState(instant, get_sun_times(today_date + 1))

SunsetCountdownState(instant, offset) ==
    SunsetCountdownStateOf(instant, LocalDate(instant, offset),
                           get_sun_times(LocalDate(instant, offset)))

\* the instants the sensor is read at: in the night before sunrise, at
\* sunrise, in daylight, around sunset, in the night after it
ClockChoices ==
    {60, SunriseMinute - 1, SunriseMinute, 500, SunsetMinute - 1, SunsetMinute,
     SunsetMinute + 1, 1290}

InitCountdown ==
    /\ start_arg = << >>
    /\ now = [wall |-> 723, off |-> 0, aware |-> FALSE]
    /\ fault = << >>
    /\ sun_answers \in SunAnswers
    /\ panel_tilt = 0
    /\ panel_orientation = 18000
    /\ pv_max_power = 50
    /\ pc = "idle"
    /\ LocalsUnset
    /\ OthersIdle
    /\ irr_in = IdleIrr
    /\ irr_out = << >>
    /\ running = 1
    /\ parked = NoOtherInvocation
    /\ hass_data = << >>
    /\ forwarded = << >>
    /\ setup = << >>
    /\ clock \in ClockChoices
    /\ tz_off \in StartOffsets
    /\ countdown = << >>

ReadCountdown ==
    /\ countdown = << >>
    /\ countdown' = << SunsetCountdownState(clock, tz_off) >>
    /\ UNCHANGED << engine, others, hass_data, forwarded, setup, clock, tz_off >>

NextCountdown == ReadCountdown

SpecCountdown == InitCountdown /\ [][NextCountdown]_vars

\* the sun times of the date of the reading, when astral gives them
ClockDaySunrise == Instant(get_sun_times(clock \div MinutesPerDay)["sunrise"])

ClockDaySunset == Instant(get_sun_times(clock \div MinutesPerDay)["sunset"])

(***************************************************************************)
(* C14  SunsetCountdownSensor.state: in daytime before the sunset it is    *)
(* the seconds from now until that sunset; in the night, between a sunset  *)
(* and the sunrise after it, it is 0.                                      *)
(***************************************************************************)
C14_CountdownDayAndNight ==
    (countdown # << >> /\ ~NoSunTimes(get_sun_times(clock \div MinutesPerDay))) =>
        /\ (ClockDaySunrise <= clock /\ clock < ClockDaySunset) =>
               countdown[1] = StateOf((ClockDaySunset - clock) * 60)
        /\ clock < ClockDaySunrise => countdown[1] = StateOf(0)
        /\ (clock >= ClockDaySunset
            /\ ~NoSunTimes(get_sun_times(clock \div MinutesPerDay + 1))) =>
               countdown[1] = StateOf(0)

\* the date the forecast is for: tomorrow's once the start instant is at or
\* after today's sunset and tomorrow has sun times, today's otherwise
ResolvedDay ==
    IF StartPastSunset /\ TomorrowResolves
    THEN DateOf(start_time) + 1
    ELSE DateOf(start_time)

ResultKeys ==
    {"total_energy", "forecast", "full_day_forecast", "total_daily_energy",
     "sunrise_time", "sunset_time", "forecast_start", "forecast_day"}

(***************************************************************************)
(* C16  With the start instant at or after today's sunset and no sun times *)
(* for tomorrow, the call does not fail: the result carries today's        *)
(* sunrise, sunset and date, and the remaining series is empty with total  *)
(* 0.                                                                      *)
(***************************************************************************)
C16_FallBackToToday ==
    (Done /\ StartPastSunset /\ ~TomorrowResolves) =>
        /\ outcome = "returned"
        /\ caught = "none"
        /\ DOMAIN result = ResultKeys
        /\ result.sunrise_time = get_sun_times(DateOf(start_time))["sunrise"]
        /\ result.sunset_time = TodaySunset
        /\ result.forecast_day = DateOf(start_time)
        /\ result.forecast = << >>
        /\ result.total_energy = 0

RecordsDark(series) ==
    \E i \in 1..Len(series) : series[i].solar_elevation <= 0

\* the sun is at or below the horizon at the start instant
DarkAtStart ==
    calculate_solar_position(Latitude, Longitude, start_time).elevation <= 0

C19_PowerIsRatedTimesIrradiance ==
    \A series \in SeriesHeld :
        \A i \in 1..Len(series) :
            series[i].power_kw =
                Round(pv_max_power
                          * (IF series[i].irradiance <= 100000
                             THEN series[i].irradiance ELSE 100000),
                      1000)

\* what the rounding of power_kw to 3 places and of energy_5min_kwh to 4 can
\* put between the two recorded numbers (mW * min)
RoundingSlack == (1000 \div 2) * StepMinutes + 6000 \div 2

(***************************************************************************)
(* C20  In every interval the energy is the interval's power times         *)
(* step_minutes / 60, to the rounding of the two recorded numbers, and the *)
(* step of the energy conversion is the step the timestamps advance by.    *)
(***************************************************************************)
C20_EnergyFromPower ==
    \A series \in SeriesHeld :
        \A i \in 1..Len(series) :
            /\ Abs(series[i].energy_5min_kwh - series[i].power_kw * StepMinutes)
                   <= RoundingSlack
            /\ i > 1 => Instant(series[i].time)
                            = Instant(series[i - 1].time) + StepMinutes

C20_Witness ==
    \E i \in 2..Len(full_day_forecast) :
        /\ full_day_forecast[i].power_kw > 100000
        /\ full_day_forecast[i].energy_5min_kwh > 0

\* the energies recorded in a series, added up (mW * min)
EnergyRecorded(series) ==
    LET part[lo \in 1..(Len(series) + 1), hi \in 0..Len(series)] ==
            IF lo > hi THEN 0
            ELSE IF lo = hi THEN series[lo].energy_5min_kwh
            ELSE part[lo, (lo + hi) \div 2] + part[(lo + hi) \div 2 + 1, hi]
    IN  part[1, Len(series)]

\* what the rounding of energy_5min_kwh to 4 places can put between a total
\* and the recorded energies of n intervals (mW * min)
SumSlack(n) == n * (6000 \div 2)

(***************************************************************************)
(* C21  Each total is the sum of the energies of the intervals of its own  *)
(* series, to the rounding of the recorded energies and of the returned    *)
(* total: total_daily_energy over the full-day series, total_energy over   *)
(* the remaining series, nothing added for a step that is not in the       *)
(* series.                                                                 *)
(***************************************************************************)
C21_TotalsAreSums ==
    /\ Abs(total_daily_energy - EnergyRecorded(full_day_forecast))
           <= SumSlack(Len(full_day_forecast))
    /\ (Done /\ outcome = "returned") =>
          /\ Abs(result.total_daily_energy - EnergyRecorded(result.full_day_forecast))
                 <= SumSlack(Len(result.full_day_forecast)) + 60000 \div 2
          /\ Abs(result.total_energy - EnergyRecorded(result.forecast))
                 <= SumSlack(Len(result.forecast)) + 60000 \div 2

C21_Witness ==
    /\ Len(full_day_forecast) >= 100
    /\ total_daily_energy > 100 * 6000
    /\ total_daily_energy # EnergyRecorded(full_day_forecast)

(***************************************************************************)
(* Calls in which the position calculation fails at one step               *)
(***************************************************************************)
\* the failing step: on the grid of the full-day loop, in daylight
FaultMinutes ==
    {SunriseMinute + 100 * StepMinutes, SunriseMinute + 140 * StepMinutes}

\* start instants before the failing steps: on the grid of the full-day loop,
\* and before sunrise off that grid
FaultStarts ==
    {<< UtcTime(SunriseMinute + 60 * StepMinutes) >>, << UtcTime(60) >>}

InitFault ==
    /\ start_arg \in FaultStarts
    /\ now = [wall |-> 723, off |-> 0, aware |-> FALSE]
    /\ fault \in {<< m >> : m \in FaultMinutes}
    /\ sun_answers = [d \in Days |-> AstralReturns(d)]
    /\ panel_tilt \in TiltChoices
    /\ panel_orientation = 18000
    /\ pv_max_power = 50
    /\ pc = "call"
    /\ LocalsUnset
    /\ OthersIdle
    /\ irr_in = IdleIrr
    /\ irr_out = << >>
    /\ running = 1
    /\ parked = NoOtherInvocation
    /\ IntegrationIdle

SpecFault == InitFault /\ [][Next]_vars

\* the interval of a step at dt when nothing fails
FaultFreeInterval(dt) ==
    StepOfPosition(dt,
                   PositionAt(Latitude, Declination(dt), HourAngle(Longitude, dt)),
                   panel_tilt, panel_orientation, pv_max_power).interval

\* the passes of the full-day loop
FullDayPasses ==
    (Instant(sunset_time) - Instant(sunrise_time) + StepMinutes - 1) \div StepMinutes

(***************************************************************************)
(* C22  A failure of the position calculation at one step does not abort   *)
(* the forecast: the call returns both series, the failed step contributes *)
(* no energy, and every other step is there as computed without the        *)
(* failure.                                                                *)
(***************************************************************************)
C22_StepFailureIsolated ==
    (Done /\ fault # << >>) =>
        /\ outcome = "returned"
        /\ caught = "none"
        /\ Len(result.full_day_forecast) = FullDayPasses - 1
        /\ \A i \in 1..Len(result.full_day_forecast) :
              /\ Instant(result.full_day_forecast[i].time) # fault[1]
              /\ result.full_day_forecast[i]
                     = FaultFreeInterval(result.full_day_forecast[i].time)
        /\ \E i \in 1..Len(result.forecast) :
              Instant(result.forecast[i].time) > fault[1]
        /\ \A i \in 1..Len(result.forecast) :
              IF Instant(result.forecast[i].time) = fault[1]
              THEN /\ result.forecast[i].power_kw = 0
                   /\ result.forecast[i].energy_5min_kwh = 0
              ELSE result.forecast[i] = FaultFreeInterval(result.forecast[i].time)


\* ---------------------------------------------------------------------
\* calculate_solar_position called on its own
\* ---------------------------------------------------------------------

\* the UTC minute at which the code's hour angle is zero for Longitude
NoonMinute == (MinutesPerDay \div 2) - (Longitude \div 25)

\* the instants the function is called at: every hour of the day, and the
\* minute of hour angle zero
PositionMinutes == { 60 * k : k \in 0..23 } \cup { NoonMinute }

\* the datetimes handed in: each instant written in each offset
PositionTimes ==
    { [wall |-> m + o, off |-> o, aware |-> TRUE] :
        m \in PositionMinutes, o \in StartOffsets }

\* the arguments of a call: a datetime, or None in its place
PositionInputs ==
    [ latitude : { Latitude }, longitude : { Longitude },
      dt_arg : { << >> } \cup { << dt >> : dt \in PositionTimes } ]

InitPosition ==
    /\ start_arg = << >>
    /\ now = [wall |-> 723, off |-> 0, aware |-> FALSE]
    /\ fault \in { << >>, << NoonMinute >> }
    /\ sun_answers = [d \in Days |-> AstralRaises("ValueError")]
    /\ panel_tilt = 0
    /\ panel_orientation = 18000
    /\ pv_max_power = 50
    /\ pc = "idle"
    /\ LocalsUnset
    /\ irr_in = IdleIrr
    /\ irr_out = << >>
    /\ running = 1
    /\ parked = NoOtherInvocation
    /\ IntegrationIdle
    /\ pos_in \in PositionInputs
    /\ pos_out = << >>
    /\ flow_in = << >>
    /\ flow_out = << >>
    /\ is_on = << >>
    /\ last_command = << >>

\* one call of calculate_solar_position
ComputePosition ==
    /\ pos_in # << >>
    /\ pos_out = << >>
    /\ pos_out' = << SolarPositionCall(pos_in.latitude, pos_in.longitude,
                                       pos_in.dt_arg) >>
    /\ UNCHANGED << engine, integration, pos_in, flow_in, flow_out,
                    is_on, last_command >>

NextPosition == ComputePosition

SpecPosition == InitPosition /\ [][NextPosition]_vars

\* the call was given no usable instant, or its math failed
PositionCallFails ==
    \/ pos_in.dt_arg = << >>
    \/ MathFails(pos_in.dt_arg[1])

\* C23: calculate_solar_position never raises: every call returns an
\* elevation and an azimuth, and a call in which anything fails (a
\* malformed instant, a failure of the math) returns elevation 0 and
\* azimuth 0.
C23_PositionNeverRaises ==
    pos_out # << >> =>
        /\ pos_out[1].raises = "none"
        /\ DOMAIN pos_out[1].value = { "elevation", "azimuth" }
        /\ pos_out[1].value.elevation \in Int
        /\ pos_out[1].value.azimuth \in Int
        /\ PositionCallFails =>
               /\ pos_out[1].value.elevation = 0
               /\ pos_out[1].value.azimuth = 0

C23_Witness ==
    /\ pos_out # << >>
    /\ pos_in.dt_arg = << >>
    /\ pos_out[1].value.elevation = 0

\* C25: the position depends on the absolute instant alone: a datetime
\* written in another UTC offset gives the same elevation and azimuth as
\* the same instant written in UTC.
C25_SameInstantSamePosition ==
    (pos_out # << >> /\ ~PositionCallFails) =>
        pos_out[1].value =
            calculate_solar_position(pos_in.latitude, pos_in.longitude,
                                     UtcTime(Instant(pos_in.dt_arg[1])))

\* C26: at local solar noon (hour angle zero) at the northern mid-latitude
\* the azimuth is about 180 degrees (here: within 5 degrees of it), and
\* the elevation is the highest of the day.
C26_NoonIsSouthAndHighest ==
    (/\ pos_out # << >>
     /\ ~PositionCallFails
     /\ pos_in.dt_arg[1].off = 0
     /\ HourAngle(pos_in.longitude, pos_in.dt_arg[1]) = 0) =>
        /\ Abs(pos_out[1].value.azimuth - 18000) <= 500
        /\ \A m \in PositionMinutes :
               calculate_solar_position(pos_in.latitude, pos_in.longitude,
                                        UtcTime(m)).elevation
                   <= pos_out[1].value.elevation


\* C24: for every solar elevation above the horizon the air mass used by
\* the irradiance model is 1/sin(elevation) capped at 10: it never exceeds
\* 10, elevations just above the horizon included.
C24_AirMassCapped ==
    (irr_out # << >> /\ irr_in.elevation > 0) =>
        /\ AirMass(irr_in.elevation) <= 10000
        /\ AirMass(irr_in.elevation) < 10000 =>
               AirMass(irr_in.elevation) = 10000000 \div Sin(irr_in.elevation)


\* the entries that have data stored under the domain
StoredEntries(data) ==
    IF Domain \in DOMAIN data THEN DOMAIN data[Domain] ELSE {}

\* the step in which async_unload_entry of entry e returns
UnloadReturned(e) ==
    /\ setup[e].pc = "unloading"
    /\ setup'[e].pc # "unloading"

\* C27: async_unload_entry removes hass.data[DOMAIN][entry_id] if and only
\* if the platforms unloaded, and returns that outcome; a failed unload
\* leaves the stored data as it was, the data of the other entries is never
\* touched, and an entry that was set up and then unloaded with success has
\* no data stored.
C27_UnloadRemovesOnSuccess ==
    /\ [](\A e \in DOMAIN setup :
            (setup[e].pc = "idle" /\ setup[e].unload_ok = << TRUE >>) =>
                e \notin StoredEntries(hass_data))
    /\ [][\A e \in DOMAIN setup :
            UnloadReturned(e) =>
                /\ e \in StoredEntries(hass_data)
                /\ setup'[e].unload_returned = setup'[e].unload_ok
                /\ (e \notin StoredEntries(hass_data')) <=> setup'[e].unload_ok[1]
                /\ ~setup'[e].unload_ok[1] => hass_data' = hass_data
                /\ \A o \in StoredEntries(hass_data) \ {e} :
                       /\ o \in StoredEntries(hass_data')
                       /\ hass_data'[Domain][o] = hass_data[Domain][o]
                /\ StoredEntries(hass_data') \subseteq StoredEntries(hass_data)
          ]_vars

\* one entry unloaded with success and gone, one whose unload failed and
\* whose data is still stored, a third one set up and never unloaded
C27_Witness ==
    /\ DOMAIN setup = EntryIds
    /\ setup["entry_1"].pc = "idle"
    /\ setup["entry_1"].unload_returned = << TRUE >>
    /\ StoredEntries(hass_data) = {"entry_2", "entry_3"}
    /\ setup["entry_2"].pc = "done"
    /\ setup["entry_2"].unload_returned = << FALSE >>
    /\ hass_data[Domain]["entry_2"] = setup["entry_2"].data
    /\ setup["entry_3"].pc = "done"
    /\ setup["entry_3"].unload_ok = << >>


\* ---------------------------------------------------------------------
\* ConfigFlow.async_step_user
\* ---------------------------------------------------------------------

NoErrors == [k \in NoKeys |-> ""]

\* user_input.get(key): the value, or None for a key that is not there
NoneValue == "None"

Get(user_input, key) ==
    IF key \in DOMAIN user_input THEN user_input[key] ELSE NoneValue

\* not value, for a string or None
Falsy(value) == value = NoneValue \/ value = ""

\* Validate with an if for every check in place of the elif chain
ValidateEveryCheck(user_input) ==
    (IF user_input["low_battery_threshold"] > 100
     THEN "low_battery_threshold" :> "threshold_too_high" ELSE NoErrors)
    @@ (IF user_input["min_discharge_percentage"] > 100
        THEN "min_discharge_percentage" :> "discharge_too_high" ELSE NoErrors)
    @@ (IF user_input["min_discharge_percentage"] < 0
        THEN "min_discharge_percentage" :> "discharge_too_low" ELSE NoErrors)
    @@ (IF user_input["pv_max_power"] <= 0
        THEN "pv_max_power" :> "power_invalid" ELSE NoErrors)
    @@ (IF user_input["battery_capacity"] <= 0
        THEN "battery_capacity" :> "capacity_invalid" ELSE NoErrors)
    @@ (IF Falsy(Get(user_input, "growatt_username"))
        THEN "growatt_username" :> "username_required" ELSE NoErrors)
    @@ (IF Falsy(Get(user_input, "growatt_password"))
        THEN "growatt_password" :> "password_required" ELSE NoErrors)

\* the if / elif chain: the errors dict it leaves (empty: the else branch)
Validate(user_input) ==
    IF user_input["low_battery_threshold"] > 100
    THEN "low_battery_threshold" :> "threshold_too_high"
    ELSE IF user_input["min_discharge_percentage"] > 100
    THEN "min_discharge_percentage" :> "discharge_too_high"
    ELSE IF user_input["min_discharge_percentage"] < 0
    THEN "min_discharge_percentage" :> "discharge_too_low"
    ELSE IF user_input["pv_max_power"] <= 0
    THEN "pv_max_power" :> "power_invalid"
    ELSE IF user_input["battery_capacity"] <= 0
    THEN "battery_capacity" :> "capacity_invalid"
    ELSE IF Falsy(Get(user_input, "growatt_username"))
    THEN "growatt_username" :> "username_required"
    ELSE IF Falsy(Get(user_input, "growatt_password"))
    THEN "growatt_password" :> "password_required"
    ELSE NoErrors

ShowForm(errors) == [type |-> "form", step_id |-> "user", errors |-> errors]

CreateEntry(title, data) == [type |-> "create_entry", title |-> title, data |-> data]

\* async_step_user(user_input), user_input_arg = << >> for None
AsyncStepUser(user_input_arg) ==
    IF user_input_arg = << >>
    THEN ShowForm(NoErrors)
    ELSE IF Validate(user_input_arg[1]) = NoErrors
    THEN CreateEntry(user_input_arg[1]["name"], user_input_arg[1])
    ELSE ShowForm(Validate(user_input_arg[1]))

\* what the user may leave in a text field: nothing at all, an empty
\* string, a value
TextChoices(value) == { NoneValue, "", value }

TextField(key, value) ==
    IF value = NoneValue THEN NoErrors ELSE key :> value

UserInputs ==
    { [name |-> "Guard", low_battery_threshold |-> t,
       min_discharge_percentage |-> m, pv_max_power |-> p,
       battery_capacity |-> c]
      @@ TextField("growatt_username", u) @@ TextField("growatt_password", w) :
        t \in {20, 100, 101}, m \in {-1, 0, 10, 100, 101}, p \in {-1, 0, 10},
        c \in {0, 10}, u \in TextChoices("user"), w \in TextChoices("secret") }

InitConfigFlow ==
    /\ start_arg = << >>
    /\ now = [wall |-> 723, off |-> 0, aware |-> FALSE]
    /\ fault = << >>
    /\ sun_answers = [d \in Days |-> AstralRaises("ValueError")]
    /\ panel_tilt = 0
    /\ panel_orientation = 18000
    /\ pv_max_power = 50
    /\ pc = "idle"
    /\ LocalsUnset
    /\ irr_in = IdleIrr
    /\ irr_out = << >>
    /\ running = 1
    /\ parked = NoOtherInvocation
    /\ IntegrationIdle
    /\ pos_in = << >>
    /\ pos_out = << >>
    /\ flow_in \in { << >> } \cup { << i >> : i \in UserInputs }
    /\ flow_out = << >>
    /\ is_on = << >>
    /\ last_command = << >>

\* one call of async_step_user
StepUser ==
    /\ flow_out = << >>
    /\ flow_out' = << AsyncStepUser(flow_in) >>
    /\ UNCHANGED << engine, integration, pos_in, pos_out, flow_in,
                    is_on, last_command >>

NextConfigFlow == StepUser

SpecConfigFlow == InitConfigFlow /\ [][NextConfigFlow]_vars

\* the checks of the flow in their order, each with the key it reports
FlowChecks(i) ==
    << [key |-> "low_battery_threshold", ok |-> i["low_battery_threshold"] <= 100],
       [key |-> "min_discharge_percentage",
        ok |-> 0 <= i["min_discharge_percentage"]
               /\ i["min_discharge_percentage"] <= 100],
       [key |-> "pv_max_power", ok |-> i["pv_max_power"] > 0],
       [key |-> "battery_capacity", ok |-> i["battery_capacity"] > 0],
       [key |-> "growatt_username",
        ok |-> "growatt_username" \in DOMAIN i /\ i["growatt_username"] # ""],
       [key |-> "growatt_password",
        ok |-> "growatt_password" \in DOMAIN i /\ i["growatt_password"] # ""] >>

FirstFailing(checks) ==
    CHOOSE n \in 1..Len(checks) :
        /\ ~checks[n].ok
        /\ \A k \in 1..(n - 1) : checks[k].ok

\* C28: async_step_user creates a config entry if and only if the input
\* passes every check (threshold at most 100, discharge percentage from 0
\* to 100, PV power and battery capacity above 0, username and password
\* not empty); otherwise it shows the form again with exactly one error
\* key, that of the first failing check in that order, and creates no entry.
C28_EntryIffAllChecksPass ==
    (flow_out # << >> /\ flow_in # << >>) =>
        LET checks == FlowChecks(flow_in[1])
            passes == \A n \in 1..Len(checks) : checks[n].ok
        IN  /\ (flow_out[1].type = "create_entry") <=> passes
            /\ passes => flow_out[1].data = flow_in[1]
            /\ ~passes =>
                   /\ flow_out[1].type = "form"
                   /\ DOMAIN flow_out[1].errors
                          = { checks[FirstFailing(checks)].key }

\* an input failing two checks is shown the form with the first one's key
C28_Witness ==
    /\ flow_out # << >>
    /\ flow_in # << >>
    /\ flow_in[1]["min_discharge_percentage"] = 101
    /\ flow_in[1]["battery_capacity"] = 0
    /\ "growatt_password" \notin DOMAIN flow_in[1]
    /\ flow_out[1].type = "form"
    /\ DOMAIN flow_out[1].errors = { "min_discharge_percentage" }


\* ---------------------------------------------------------------------
\* The switches
\* ---------------------------------------------------------------------

SwitchKinds == { "enabled", "optimization" }

\* the switch entities async_setup_entry of the platform creates: two for
\* every entry
Switches == EntryIds \X SwitchKinds

\* _is_on as __init__ sets it
InitialIsOn(kind) == kind = "enabled"

\* a command that sets _is_on of both switches of the entry
SetIsOnOfEntry(state, switch, value) ==
    [s \in DOMAIN state |-> IF s[1] = switch[1] THEN value ELSE state[s]]

\* self._is_on = value
SetIsOn(state, switch, value) == [state EXCEPT ![switch] = value]

\* extra_state_attributes of the optimization switch
ExtraStateAttributes(on) ==
    [optimization_mode |-> IF on THEN "balanced" ELSE "disabled",
     power_saving |-> on]

InitSwitches ==
    /\ start_arg = << >>
    /\ now = [wall |-> 723, off |-> 0, aware |-> FALSE]
    /\ fault = << >>
    /\ sun_answers = [d \in Days |-> AstralRaises("ValueError")]
    /\ panel_tilt = 0
    /\ panel_orientation = 18000
    /\ pv_max_power = 50
    /\ pc = "idle"
    /\ LocalsUnset
    /\ irr_in = IdleIrr
    /\ irr_out = << >>
    /\ running = 1
    /\ parked = NoOtherInvocation
    /\ IntegrationIdle
    /\ pos_in = << >>
    /\ pos_out = << >>
    /\ flow_in = << >>
    /\ flow_out = << >>
    /\ is_on = [s \in Switches |-> InitialIsOn(s[2])]
    /\ last_command = [s \in Switches |-> "none"]

\* async_turn_on of one switch
TurnOn(s) ==
    /\ is_on' = SetIsOn(is_on, s, TRUE)
    /\ last_command' = [last_command EXCEPT ![s] = "on"]
    /\ UNCHANGED << engine, integration, pos_in, pos_out, flow_in, flow_out >>

\* async_turn_off of one switch
TurnOff(s) ==
    /\ is_on' = SetIsOn(is_on, s, FALSE)
    /\ last_command' = [last_command EXCEPT ![s] = "off"]
    /\ UNCHANGED << engine, integration, pos_in, pos_out, flow_in, flow_out >>

NextSwitches ==
    \/ \E s \in Switches : TurnOn(s)
    \/ \E s \in Switches : TurnOff(s)

SpecSwitches == InitSwitches /\ [][NextSwitches]_vars

\* C29: after any sequence of turn_on / turn_off calls each switch's is_on
\* is the last command it got (with none: management on, optimization
\* off), a command to one switch never changes another, and the
\* optimization switch reports optimization_mode "balanced" exactly when it
\* is on, "disabled" otherwise.
C29_SwitchFollowsLastCommand ==
    /\ [](\A s \in DOMAIN is_on :
            /\ last_command[s] = "none" => (is_on[s] <=> s[2] = "enabled")
            /\ last_command[s] = "on" => is_on[s]
            /\ last_command[s] = "off" => ~is_on[s]
            /\ s[2] = "optimization" =>
                   /\ ExtraStateAttributes(is_on[s]).optimization_mode
                          \in { "balanced", "disabled" }
                   /\ (ExtraStateAttributes(is_on[s]).optimization_mode = "balanced")
                          <=> is_on[s])
    /\ [][\A s \in DOMAIN is_on :
            (\E o \in DOMAIN is_on :
                o # s /\ last_command'[o] # last_command[o]) =>
                    is_on'[s] = is_on[s]
          ]_vars

\* the management switch of an entry turned off and its optimization
\* switch turned on, while another entry's switches got no command
C29_Witness ==
    /\ DOMAIN is_on = Switches
    /\ last_command[<< "entry_1", "enabled" >>] = "off"
    /\ ~is_on[<< "entry_1", "enabled" >>]
    /\ last_command[<< "entry_1", "optimization" >>] = "on"
    /\ ExtraStateAttributes(is_on[<< "entry_1", "optimization" >>]).optimization_mode
           = "balanced"
    /\ last_command[<< "entry_2", "optimization" >>] = "none"
    /\ ~is_on[<< "entry_2", "optimization" >>]


\* ---------------------------------------------------------------------
\* The countdown read on a host whose clock is in any zone
\* ---------------------------------------------------------------------

\* the answer of astral for a place far to the east in winter: sunrise at
\* 00:30 UTC and sunset at 06:00 UTC of the date
ShortDaySunDict(date) ==
    [k \in {"sunrise", "sunset"} |->
        UtcTime(date * MinutesPerDay + (IF k = "sunrise" THEN 30 ELSE 6 * 60))]

CountdownAnswers ==
    SunAnswers
        \cup { [d \in Days |-> [raises |-> "none", value |-> ShortDaySunDict(d)]] }

\* the UTC offsets of the host's local time: UTC, UTC+2, UTC-8
HostOffsets == StartOffsets \cup { -(8 * 60) }

\* the instants of ClockChoices, and 06:40 UTC of the next UTC date
HostClockChoices == ClockChoices \cup { MinutesPerDay + 400 }

\* the readings on the first local date of the host
InitCountdownHosts ==
    /\ start_arg = << >>
    /\ now = [wall |-> 723, off |-> 0, aware |-> FALSE]
    /\ fault = << >>
    /\ sun_answers \in CountdownAnswers
    /\ panel_tilt = 0
    /\ panel_orientation = 18000
    /\ pv_max_power = 50
    /\ pc = "idle"
    /\ LocalsUnset
    /\ OthersIdle
    /\ irr_in = IdleIrr
    /\ irr_out = << >>
    /\ running = 1
    /\ parked = NoOtherInvocation
    /\ hass_data = << >>
    /\ forwarded = << >>
    /\ setup = << >>
    /\ clock \in HostClockChoices
    /\ tz_off \in HostOffsets
    /\ LocalDate(clock, tz_off) = 0
    /\ countdown = << >>

SpecCountdownHosts == InitCountdownHosts /\ [][NextCountdown]_vars

=============================================================================
